---- MODULE Spec2Model ----
(***************************************************************************)
(* MyPromise: a hand-written Promise/A+ implementation.                    *)
(* Every promise is an index into the sequences _state, _value, _handlers. *)
(* One action is one synchronous piece of script (a constructor call, a    *)
(* call of a settlement capability, a then call, a combinator call) or the *)
(* run of one callback of the process.nextTick queue.                      *)
(***************************************************************************)
EXTENDS Integers, Sequences, FiniteSets, TLC

\* ------------------------------------------------------------------ bounds
MaxPromises == 7      \* promises ever constructed in one behaviour
MaxNew      == 2      \* promises constructed by the script with an executor
MaxCalls    == 2      \* capability calls made on one script promise
MaxThen     == 2      \* then calls made by the script
MaxComb     == 1      \* combinator calls made by the script
MaxInputs   == 2      \* length of a combinator's input
MaxChain    == 1      \* catch and finally calls made by the script

\* ------------------------------------------------------- program constants
PENDING   == "pending"
FULFILLED == "fulfilled"
REJECTED  == "rejected"

\* ------------------------------------------------------------ JS values
Undefined  == [k |-> "undefined"]
Num(n)     == [k |-> "number", n |-> n]
Ref(p)     == [k |-> "promise", id |-> p]
Arr(items) == [k |-> "array", items |-> items]
Hole       == [k |-> "empty"]
TypeError  == [k |-> "TypeError"]
ValueObj(status, v)  == [k |-> "object", status |-> status, value |-> v]
ReasonObj(status, v) == [k |-> "object", status |-> status, reason |-> v]

\* function values: a missing continuation, the script's continuations,
\* the bound capabilities of a promise, and the closures of the combinators
NotAFunction      == [fn |-> "undefined"]
Script(name, p)   == [fn |-> "script", name |-> name, id |-> p]
Bound(m, p)       == [fn |-> m, this |-> p]
isFunction(f)     == f.fn # "undefined"

\* Payloads are opaque to the program, so the script labels each one with
\* where it comes from: the n-th capability call on promise p, and what a
\* continuation passed to the then call making promise p returns or throws.
Payload(p, n) == Num(10 * p + n)
Returned(p)   == Num(100 + p)
Thrown(p)     == Num(200 + p)

VARIABLES
  _state,      \* _state[p]    : PENDING, FULFILLED or REJECTED
  _value,      \* _value[p]    : the settled payload
  _handlers,   \* _handlers[p] : queue of {executor, state, resolve, reject}
  closure,     \* closure[p]   : results, count, fulfilledCount of the all call that made p
  nextTick,    \* callbacks handed to process.nextTick and not yet run
  timers,      \* callbacks handed to setTimeout and not yet run
  host,        \* "node": process.nextTick exists; "browser": MutationObserver
               \* does; anything else: neither does
  origin,      \* history: how promise p was made
  calls,       \* history: continuation invocations, in order
  settled,     \* history: promises in the order they left PENDING
  attempts,    \* history: capability calls made by the script on p
  api,         \* history: combinator calls of the script and what they returned
  given,       \* history: the first call of _resolve or _reject on script
               \* promise p, by the script, the executor or the constructor's
               \* catch clause, with its payload (<<>> when none was made)
  handed,      \* history: number of callbacks handed to runMicroTask so far
  ran          \* history: number of callbacks the host has run so far

vars == <<_state, _value, _handlers, closure, nextTick, timers, host, origin, calls,
          settled, attempts, api, given, handed, ran>>

Promises == DOMAIN _state

\* the whole program state as one record, threaded through the operators
Cur == [state |-> _state, value |-> _value, handlers |-> _handlers,
        closure |-> closure, nextTick |-> nextTick, timers |-> timers, host |-> host,
        origin |-> origin, calls |-> calls, settled |-> settled,
        attempts |-> attempts, given |-> given, handed |-> handed, ran |-> ran,
        stack |-> <<>>, does |-> [k |-> "return"], seq |-> 0]

Commit(s) ==
  /\ _state' = s.state
  /\ _value' = s.value
  /\ _handlers' = s.handlers
  /\ closure' = s.closure
  /\ nextTick' = s.nextTick
  /\ timers' = s.timers
  /\ host' = s.host
  /\ origin' = s.origin
  /\ calls' = s.calls
  /\ settled' = s.settled
  /\ attempts' = s.attempts
  /\ given' = s.given
  /\ handed' = s.handed
  /\ ran' = s.ran

\* the result of a call: the state after it, and what it returned or threw
Ret(s, v)    == [s |-> s, threw |-> FALSE, val |-> v]
Raise(s, e)  == [s |-> s, threw |-> TRUE, val |-> e]

Push(s, frame) == [s EXCEPT !.stack = Append(@, frame)]
Pop(s)         == [s EXCEPT !.stack = SubSeq(@, 1, Len(@) - 1)]

NoClosure == [results |-> <<>>, count |-> 0, fulfilledCount |-> 0]

RECURSIVE callback(_, _, _)
RECURSIVE apply(_, _, _)
RECURSIVE all_onFulfilled(_, _, _, _)
RECURSIVE then(_, _, _, _)
RECURSIVE onSettled(_, _)
RECURSIVE _runHandlers(_, _)
RECURSIVE _changeState(_, _, _, _)

\* faulty variant: the callback is run at once, inside the caller
runMicroTask_inline(s, cb) == callback(s, cb.this, cb.handler)

\* runMicroTask: hand a callback to the host. The callback is numbered in the
\* order of the calls of runMicroTask.
runMicroTask(s, cb) ==
  LET n  == s.handed + 1
      c  == [this |-> cb.this, handler |-> cb.handler, seq |-> n]
      s1 == [s EXCEPT !.handed = n]
  IN IF s.host = "node" THEN [s1 EXCEPT !.nextTick = Append(@, c)]
     ELSE IF s.host = "browser" THEN s1
     ELSE [s1 EXCEPT !.timers = Append(@, c)]

isPromise(obj) == obj.k = "promise"

\* the three assignments that open the constructor
alloc(s, how) ==
  [s EXCEPT !.state = Append(@, PENDING),
            !.value = Append(@, Undefined),
            !.handlers = Append(@, <<>>),
            !.closure = Append(@, NoClosure),
            !.attempts = Append(@, 0),
            !.given = Append(@, <<>>),
            !.origin = Append(@, how)]

_pushHandler(s, this, executor, state, resolve, reject) ==
  [s EXCEPT !.handlers[this] = Append(@,
     [executor |-> executor, state |-> state, resolve |-> resolve, reject |-> reject])]

\* faulty variant: the callback is called, not handed to runMicroTask
_runOneHandler_direct(s, this, handler) == callback(s, this, handler)

_runOneHandler(s, this, handler) ==
  runMicroTask(s, [this |-> this, handler |-> handler])

\* faulty variant: the queue is taken from its newest end
RECURSIVE _runHandlers_lifo(_, _)
_runHandlers_lifo(s, this) ==
  IF s.state[this] = PENDING THEN s
  ELSE IF s.handlers[this] = <<>> THEN s
  ELSE LET n  == Len(s.handlers[this])
           s1 == _runOneHandler(s, this, s.handlers[this][n])
           s2 == [s1 EXCEPT !.handlers[this] = SubSeq(@, 1, n - 1)]
       IN _runHandlers_lifo(s2, this)

_runHandlers(s, this) ==
  IF s.state[this] = PENDING THEN s
  ELSE IF s.handlers[this] = <<>> THEN s
  ELSE LET s1 == _runOneHandler(s, this, Head(s.handlers[this]))
           s2 == [s1 EXCEPT !.handlers[this] = Tail(@)]
       IN _runHandlers(s2, this)

\* faulty variant: the test of the current state is missing
_changeState_unguarded(s, this, newState, value) ==
  LET s1 == Push(s, [fn |-> "_changeState", this |-> this])
      s2 == [s1 EXCEPT !.state[this] = newState,
                       !.value[this] = value,
                       !.settled = Append(@, this)]
  IN Pop(_runHandlers(s2, this))

_changeState(s, this, newState, value) ==
  IF s.state[this] # PENDING THEN s
  ELSE LET s1 == Push(s, [fn |-> "_changeState", this |-> this])
           s2 == [s1 EXCEPT !.state[this] = newState,
                            !.value[this] = value,
                            !.settled = Append(@, this)]
       IN Pop(_runHandlers(s2, this))

\* faulty variant: a promise given as data is adopted
_resolve_adopting(s, this, data) ==
  IF isPromise(data)
    THEN then(s, data.id, Bound("_resolve", this), Bound("_reject", this)).s
    ELSE _changeState(s, this, FULFILLED, data)

_resolve(s, this, data) == _changeState(s, this, FULFILLED, data)

_reject(s, this, reason) == _changeState(s, this, REJECTED, reason)

\* a call f(arg) of a function value: a continuation of the script, a bound
\* capability, or one of the closures the combinators pass to then
apply(s, f, arg) ==
  CASE f.fn = "script" /\ s.does.k = "return"  -> Ret(s, Returned(f.id))
    [] f.fn = "script" /\ s.does.k = "throw"   -> Raise(s, Thrown(f.id))
    [] f.fn = "script" /\ s.does.k = "promise" -> Ret(s, Ref(s.does.id))
    [] f.fn = "_resolve" -> Ret(_resolve(s, f.this, arg), Undefined)
    [] f.fn = "_reject"  -> Ret(_reject(s, f.this, arg), Undefined)
    [] f.fn = "all_onFulfilled" -> Ret(all_onFulfilled(s, f.this, f.i, arg), Undefined)
    [] f.fn = "allSettled_onFulfilled" -> Ret(s, ValueObj(FULFILLED, arg))
    [] f.fn = "allSettled_onRejected"  -> Ret(s, ReasonObj(FULFILLED, arg))
    [] f.fn = "finally_onFulfilled" ->
         LET r == onSettled(s, f.onSettled) IN IF r.threw THEN r ELSE Ret(r.s, arg)
    [] f.fn = "finally_onRejected" ->
         LET r == onSettled(s, f.onSettled) IN IF r.threw THEN r ELSE Raise(r.s, arg)
    [] OTHER -> Raise(s, TypeError)

\* the call onSettled() inside the two continuations of finally
onSettled(s, c) ==
  IF c.fn # "script" THEN apply(s, c, Undefined)
  ELSE apply([s EXCEPT !.calls = Append(@,
                [this |-> s.origin[c.id].this, ret |-> c.id, state |-> "settled",
                 arg |-> Undefined, stack |-> s.stack, did |-> s.does,
                 executor |-> c, seq |-> s.seq])],
             c, Undefined)

\* faulty variant: the payload always goes to resolve
forward_resolveOnly(s, this, h) == apply(s, h.resolve, s.value[this]).s

\* the branch of the callback for a continuation that is not a function
forward(s, this, h) ==
  IF s.state[this] = FULFILLED
    THEN apply(s, h.resolve, s.value[this]).s
    ELSE apply(s, h.reject, s.value[this]).s

\* faulty variant: the catch clause hands the error to resolve
settle_catchResolves(s, h, r) ==
  IF r.threw THEN apply(r.s, h.resolve, r.val).s
  ELSE IF isPromise(r.val)
    THEN then(r.s, r.val.id, h.resolve, h.reject).s
    ELSE apply(r.s, h.resolve, r.val).s

\* faulty variant: a returned promise is not adopted
settle_noAdoption(s, h, r) ==
  IF r.threw THEN apply(r.s, h.reject, r.val).s
  ELSE apply(r.s, h.resolve, r.val).s

\* the try block of the callback, from the continuation's result r on
settle(s, h, r) ==
  IF r.threw THEN apply(r.s, h.reject, r.val).s
  ELSE IF isPromise(r.val)
    THEN then(r.s, r.val.id, h.resolve, h.reject).s
    ELSE apply(r.s, h.resolve, r.val).s

\* faulty variant: the test of the handler's state is missing
callback_noStateTest(s, this, h) ==
  IF ~isFunction(h.executor) THEN forward(s, this, h)
  ELSE
    LET s0 == [s EXCEPT !.calls = Append(@,
                 [this |-> this, ret |-> h.resolve.this, state |-> h.state,
                  arg |-> s.value[this], stack |-> s.stack,
                  did |-> IF h.executor.fn = "script" THEN s.does
                          ELSE [k |-> "internal"],
                  executor |-> h.executor, seq |-> s.seq])]
        s1 == Push(s0, [fn |-> "callback", this |-> this])
    IN Pop(settle(s1, h, apply(s1, h.executor, s.value[this])))

\* the callback _runOneHandler hands to runMicroTask
callback(s, this, h) ==
  IF s.state[this] # h.state THEN s
  ELSE IF ~isFunction(h.executor) THEN forward(s, this, h)
  ELSE
    LET s0 == [s EXCEPT !.calls = Append(@,
                 [this |-> this, ret |-> h.resolve.this, state |-> h.state,
                  arg |-> s.value[this], stack |-> s.stack,
                  did |-> IF h.executor.fn = "script" THEN s.does
                          ELSE [k |-> "internal"],
                  executor |-> h.executor, seq |-> s.seq])]
        s1 == Push(s0, [fn |-> "callback", this |-> this])
    IN Pop(settle(s1, h, apply(s1, h.executor, s.value[this])))

\* faulty variant: the queue is not run after the registrations
then_noRun(s, this, onFulfilled, onRejected) ==
  LET p  == Len(s.state) + 1
      s0 == alloc(s, [fn |-> "then", this |-> this, onFulfilled |-> onFulfilled,
                      onRejected |-> onRejected, was |-> s.state[this]])
      s1 == Push(s0, [fn |-> "then", this |-> p])
      s2 == _pushHandler(s1, this, onFulfilled, FULFILLED,
                         Bound("_resolve", p), Bound("_reject", p))
      s3 == _pushHandler(s2, this, onRejected, REJECTED,
                         Bound("_resolve", p), Bound("_reject", p))
  IN Ret(Pop(s3), Ref(p))

\* then: a new promise whose executor registers the two handlers
then(s, this, onFulfilled, onRejected) ==
  LET p  == Len(s.state) + 1
      s0 == alloc(s, [fn |-> "then", this |-> this, onFulfilled |-> onFulfilled,
                      onRejected |-> onRejected, was |-> s.state[this]])
      s1 == Push(s0, [fn |-> "then", this |-> p])
      s2 == _pushHandler(s1, this, onFulfilled, FULFILLED,
                         Bound("_resolve", p), Bound("_reject", p))
      s3 == _pushHandler(s2, this, onRejected, REJECTED,
                         Bound("_resolve", p), Bound("_reject", p))
      s4 == _runHandlers(s3, this)
  IN Ret(Pop(s4), Ref(p))

\* faulty variant: the continuation is passed as the first argument
catch_asFirst(s, this, onRejected) == then(s, this, onRejected, NotAFunction)

\* catch: then with null, which is not a function, as fulfilment continuation
catch(s, this, onRejected) == then(s, this, NotAFunction, onRejected)

\* faulty variant: only the fulfilment continuation is registered
finally_fulfilledOnly(s, this, c) ==
  then(s, this, [fn |-> "finally_onFulfilled", onSettled |-> c], NotAFunction)

\* finally: then with two closures over onSettled
finally(s, this, c) ==
  then(s, this, [fn |-> "finally_onFulfilled", onSettled |-> c],
                [fn |-> "finally_onRejected", onSettled |-> c])

\* ------------------------------------------------------------ combinators
\* MyPromise.resolve
resolve(s, data) ==
  IF data.k = "promise" THEN Ret(s, data)
  ELSE LET p  == Len(s.state) + 1
           s0 == alloc(s, [fn |-> "resolve", data |-> data])
       IN IF isPromise(data)
            THEN Ret(then(s0, data.id, Bound("_resolve", p), Bound("_reject", p)).s, Ref(p))
            ELSE Ret(_resolve(s0, p, data), Ref(p))

\* MyPromise.reject
reject(s, reason) ==
  LET p  == Len(s.state) + 1
      s0 == alloc(s, [fn |-> "reject", data |-> reason])
  IN Ret(_reject(s0, p, reason), Ref(p))

\* results[i] = data on a JS array (i counts from 0)
SetAt(results, i, data) ==
  [j \in 1 .. (IF i + 1 > Len(results) THEN i + 1 ELSE Len(results)) |->
     IF j = i + 1 THEN data ELSE IF j <= Len(results) THEN results[j] ELSE Hole]

\* faulty variant: the payload is appended, whatever its index
all_onFulfilled_push(s, p, i, data) ==
  LET s1 == [s EXCEPT !.closure[p].fulfilledCount = @ + 1,
                      !.closure[p].results = Append(@, data)]
  IN IF s1.closure[p].fulfilledCount = s1.closure[p].count
       THEN _resolve(s1, p, Arr(s1.closure[p].results))
       ELSE s1

\* the fulfilment continuation all passes to then for input i of the call
\* that made promise p
all_onFulfilled(s, p, i, data) ==
  LET s1 == [s EXCEPT !.closure[p].fulfilledCount = @ + 1,
                      !.closure[p].results = SetAt(@, i, data)]
  IN IF s1.closure[p].fulfilledCount = s1.closure[p].count
       THEN _resolve(s1, p, Arr(s1.closure[p].results))
       ELSE s1

\* faulty variant: reject is not passed to then
RECURSIVE allLoop_noReject(_, _, _)
allLoop_noReject(s, p, proms) ==
  IF proms = <<>> THEN s
  ELSE LET i  == s.closure[p].count
           s1 == [s EXCEPT !.closure[p].count = @ + 1]
           r  == resolve(s1, Head(proms))
           t  == then(r.s, r.val.id,
                      [fn |-> "all_onFulfilled", this |-> p, i |-> i],
                      NotAFunction)
       IN allLoop_noReject(t.s, p, Tail(proms))

\* the for-of loop of all
RECURSIVE allLoop(_, _, _)
allLoop(s, p, proms) ==
  IF proms = <<>> THEN s
  ELSE LET i  == s.closure[p].count
           s1 == [s EXCEPT !.closure[p].count = @ + 1]
           r  == resolve(s1, Head(proms))
           t  == then(r.s, r.val.id,
                      [fn |-> "all_onFulfilled", this |-> p, i |-> i],
                      Bound("_reject", p))
       IN allLoop(t.s, p, Tail(proms))

\* faulty variant: the test for an empty input is missing
all_noEmptyCase(s, proms) ==
  LET p  == Len(s.state) + 1
      s0 == alloc(s, [fn |-> "all", proms |-> proms])
  IN Ret(allLoop(s0, p, proms), Ref(p))

\* MyPromise.all
all(s, proms) ==
  LET p  == Len(s.state) + 1
      s0 == alloc(s, [fn |-> "all", proms |-> proms])
      s1 == allLoop(s0, p, proms)
  IN IF s1.closure[p].count = 0
       THEN Ret(_resolve(s1, p, Arr(s1.closure[p].results)), Ref(p))
       ELSE Ret(s1, Ref(p))

\* faulty variant: no rejection continuation is passed to then
RECURSIVE allSettledLoop_noOnRejected(_, _, _)
allSettledLoop_noOnRejected(s, proms, ps) ==
  IF proms = <<>> THEN Ret(s, ps)
  ELSE LET r == resolve(s, Head(proms))
           t == then(r.s, r.val.id, [fn |-> "allSettled_onFulfilled"], NotAFunction)
       IN allSettledLoop_noOnRejected(t.s, Tail(proms), Append(ps, t.val))

\* the for-of loop of allSettled
RECURSIVE allSettledLoop(_, _, _)
allSettledLoop(s, proms, ps) ==
  IF proms = <<>> THEN Ret(s, ps)
  ELSE LET r == resolve(s, Head(proms))
           t == then(r.s, r.val.id, [fn |-> "allSettled_onFulfilled"],
                     [fn |-> "allSettled_onRejected"])
       IN allSettledLoop(t.s, Tail(proms), Append(ps, t.val))

\* MyPromise.allSettled
allSettled(s, proms) ==
  LET l == allSettledLoop(s, proms, <<>>)
  IN all(l.s, l.val)

\* MyPromise.race: the class is called without new, which throws before the
\* executor is looked at
race(s, proms) == Raise(s, TypeError)

\* ----------------------------------------------------------------- script
\* the executors the script passes to the constructor: the capability calls
\* it makes before returning, possibly ended by a throw
Step(op, v) == [op |-> op, v |-> v]
Give(s, p, step) == IF s.given[p] = <<>> THEN [s EXCEPT !.given[p] = <<step>>] ELSE s
Executors(p) ==
  { <<>> }

RECURSIVE runExecutor(_, _, _)
runExecutor(s, this, ex) ==
  IF ex = <<>> THEN Ret(s, Undefined)
  ELSE IF Head(ex).op = "throw" THEN Raise(s, Head(ex).v)
  ELSE LET s1 == Give(s, this, Head(ex))
       IN runExecutor(apply(s1, Bound(Head(ex).op, this), Head(ex).v).s, this, Tail(ex))

\* faulty variant: the try statement around the executor is missing
constructor_noCatch(s, ex) ==
  LET p  == Len(s.state) + 1
      s0 == alloc(s, [fn |-> "new", executor |-> ex])
      r  == runExecutor(Push(s0, [fn |-> "executor", this |-> p]), p, ex)
  IN IF r.threw THEN Raise(Pop(r.s), r.val) ELSE Ret(Pop(r.s), Ref(p))

constructor(s, ex) ==
  LET p  == Len(s.state) + 1
      s0 == alloc(s, [fn |-> "new", executor |-> ex])
      r  == runExecutor(Push(s0, [fn |-> "executor", this |-> p]), p, ex)
  IN IF r.threw
       THEN Ret(_reject(Give(Pop(r.s), p, Step("_reject", r.val)), p, r.val), Ref(p))
       ELSE Ret(Pop(r.s), Ref(p))

ScriptPromises == {p \in Promises : origin[p].fn = "new"}
Made(f) == Len(SelectSeq(api, LAMBDA c : c.fn = f))

\* what the script may pass to the then call that makes promise p
Continuations(name, p) == {NotAFunction, Script(name, p)}

\* what a continuation of the script may do when it is invoked: return a
\* plain value, throw, or return one of the script's promises
Does ==
  {[k |-> "return"], [k |-> "throw"]} \cup {[k |-> "promise", id |-> q] : q \in ScriptPromises}

Init ==
  /\ _state = <<>>
  /\ _value = <<>>
  /\ _handlers = <<>>
  /\ closure = <<>>
  /\ nextTick = <<>>
  /\ timers = <<>>
  /\ host = "node"
  /\ origin = <<>>
  /\ calls = <<>>
  /\ settled = <<>>
  /\ attempts = <<>>
  /\ api = <<>>
  /\ given = <<>>
  /\ handed = 0
  /\ ran = 0

\* the hosts runMicroTask tells apart: process.nextTick exists ("node");
\* process has no nextTick and MutationObserver exists ("browser"); process
\* has no nextTick and MutationObserver is undefined ("timers")
Hosts == {"node", "browser", "timers"}

InitHost ==
  /\ _state = <<>>
  /\ _value = <<>>
  /\ _handlers = <<>>
  /\ closure = <<>>
  /\ nextTick = <<>>
  /\ timers = <<>>
  /\ host \in Hosts
  /\ origin = <<>>
  /\ calls = <<>>
  /\ settled = <<>>
  /\ attempts = <<>>
  /\ api = <<>>
  /\ given = <<>>
  /\ handed = 0
  /\ ran = 0

\* new MyPromise(executor)
New ==
  /\ Len(_state) < MaxPromises
  /\ Cardinality(ScriptPromises) < MaxNew
  /\ api = <<>> /\ settled = <<>>    \* the script makes its promises first
  /\ \E ex \in Executors(Len(_state) + 1) : Commit(constructor(Cur, ex).s)
  /\ UNCHANGED api

\* the script calls a capability its executor kept
Settle ==
  \E p \in ScriptPromises, m \in {"_resolve", "_reject"} :
    /\ attempts[p] < MaxCalls
    /\ Commit(apply(Give([Cur EXCEPT !.attempts[p] = @ + 1], p,
                         Step(m, Payload(p, attempts[p] + 1))),
                    Bound(m, p), Payload(p, attempts[p] + 1)).s)
    /\ UNCHANGED api

\* the script calls p.then(onFulfilled, onRejected)
Then ==
  /\ Len(_state) < MaxPromises
  /\ Made("then") < MaxThen
  /\ \E p \in Promises :
     \E onFulfilled \in Continuations("onFulfilled", Len(_state) + 1),
        onRejected \in Continuations("onRejected", Len(_state) + 1) :
       LET r == then(Cur, p, onFulfilled, onRejected)
       IN /\ Commit(r.s)
          /\ api' = Append(api, [fn |-> "then", proms |-> <<>>, threw |-> r.threw,
                                  ret |-> r.val])

\* executors that settle the promise or throw before the constructor
\* returns: a throw, a capability call followed by a throw, and a capability
\* call with one of the script's promises as payload
Bodies(p) ==
  { <<Step("throw", Thrown(p))>> }
  \cup { <<Step(m, Payload(p, 0)), Step("throw", Thrown(p))>> : m \in {"_resolve", "_reject"} }
  \cup { <<Step(m, Ref(q))>> : m \in {"_resolve", "_reject"}, q \in ScriptPromises }

\* new MyPromise(executor) with such an executor
NewSettling ==
  /\ Len(_state) < MaxPromises
  /\ Cardinality(ScriptPromises) < MaxNew
  /\ Made("catch") + Made("finally") = 0
  /\ \E ex \in Bodies(Len(_state) + 1) :
       LET r == constructor(Cur, ex)
       IN /\ Commit(r.s)
          /\ api' = Append(api, [fn |-> "new", proms |-> <<>>, threw |-> r.threw,
                                  ret |-> r.val])

\* a catch or finally call, made while there is room for the promise it
\* returns and for the one a later adoption makes
Chain(f, r) ==
  /\ Made("catch") + Made("finally") < MaxChain
  /\ Cardinality(ScriptPromises) + 2 * (Made("catch") + Made("finally") + 1) <= MaxPromises
  /\ Commit(r.s)
  /\ api' = Append(api, [fn |-> f, proms |-> <<>>, threw |-> r.threw, ret |-> r.val])

\* the script calls p.catch(onRejected)
Catch ==
  \E p \in Promises, g \in Continuations("onRejected", Len(_state) + 1) :
    Chain("catch", catch(Cur, p, g))

\* the script calls p.finally(onSettled)
Finally ==
  \E p \in Promises, c \in Continuations("onSettled", Len(_state) + 1) :
    Chain("finally", finally(Cur, p, c))

\* the host runs the oldest callback of the nextTick queue
RunMicroTask ==
  /\ nextTick # <<>>
  /\ \E does \in Does :
       LET cb == Head(nextTick)
           s  == [Cur EXCEPT !.nextTick = Tail(@), !.ran = @ + 1,
                             !.does = does, !.seq = cb.seq]
           s1 == callback(s, cb.this, cb.handler)
       IN /\ Len(s1.state) <= MaxPromises
          /\ Commit(s1)
  /\ UNCHANGED api

\* the host runs the oldest callback handed to setTimeout
RunTimer ==
  /\ timers # <<>>
  /\ \E does \in Does :
       LET cb == Head(timers)
           s  == [Cur EXCEPT !.timers = Tail(@), !.ran = @ + 1,
                             !.does = does, !.seq = cb.seq]
           s1 == callback(s, cb.this, cb.handler)
       IN /\ Len(s1.state) <= MaxPromises
          /\ Commit(s1)
  /\ UNCHANGED api

\* what the script may hand to a combinator: its promises and a plain value
Plain == Num(9)
Inputs ==
  UNION {[1 .. n -> {Ref(q) : q \in ScriptPromises} \cup {Plain}] : n \in 0 .. MaxInputs}

Combinator(f, r, proms) ==
  /\ Made("all") + Made("allSettled") + Made("race") < MaxComb
  /\ Len(r.s.state) <= MaxPromises
  /\ Commit(r.s)
  /\ api' = Append(api, [fn |-> f, proms |-> proms, threw |-> r.threw, ret |-> r.val])

\* the script calls MyPromise.all(proms)
All == \E proms \in Inputs : Combinator("all", all(Cur, proms), proms)

\* the script calls MyPromise.allSettled(proms)
AllSettled == \E proms \in Inputs : Combinator("allSettled", allSettled(Cur, proms), proms)

\* the script calls MyPromise.race(proms)
Race == \E proms \in Inputs : Combinator("race", race(Cur, proms), proms)

\* chaining: the script constructs promises, settles them and calls then
Next == New \/ Settle \/ Then \/ RunMicroTask

Spec == Init /\ [][Next]_vars

\* combinators: the script constructs promises, settles them and calls one
\* of all, allSettled, race
NextComb == New \/ Settle \/ All \/ AllSettled \/ Race \/ RunMicroTask

SpecComb == Init /\ [][NextComb]_vars

\* catch and finally, on promises settled by the script or by their executor
NextChain == New \/ NewSettling \/ Settle \/ Catch \/ Finally \/ RunMicroTask

SpecChain == Init /\ [][NextChain]_vars

\* what a step of RunMicroTask does to the host's queue; no other action
\* counts a run
HostRuns == nextTick # <<>> /\ nextTick' = Tail(nextTick) /\ ran' = ran + 1

\* the same, on a host that goes on running the callbacks of its queue
SpecChainLive == Init /\ [][NextChain]_vars /\ WF_<<nextTick, ran>>(HostRuns)

\* catch and finally on each of the hosts
NextHost == New \/ Settle \/ Catch \/ Finally \/ RunMicroTask \/ RunTimer

SpecHost == InitHost /\ [][NextHost]_vars
\* ------------------------------------------------------------ properties
ThenCalls == {d \in Promises : origin[d].fn = "then"}
Source(d) == origin[d].this

\* the continuation the then call that made d registered for state st
Cont(d, st) == IF st = FULFILLED THEN origin[d].onFulfilled ELSE origin[d].onRejected
Other(st)   == IF st = FULFILLED THEN REJECTED ELSE FULFILLED

\* how often that continuation has been invoked, where in the history, and
\* how many callbacks for it the host still holds
Events(d, st)  == {i \in DOMAIN calls : calls[i].ret = d /\ calls[i].state = st}
Invoked(d, st) == Cardinality(Events(d, st))
Queued(d, st)  ==
  Cardinality({i \in DOMAIN nextTick : /\ nextTick[i].handler.resolve.this = d
                                       /\ nextTick[i].handler.state = st})
Inside(stack, f, p) == \E i \in DOMAIN stack : stack[i].fn = f /\ stack[i].this = p

\* C1: once a promise has left PENDING, no step (so no later call of resolve
\* or reject, with whatever payload) changes its state or its value.
C1_OneShot ==
  [][\A p \in DOMAIN _state :
       _state[p] # PENDING => /\ _state'[p] = _state[p]
                              /\ _value'[p] = _value[p]]_vars

\* a capability was called on a promise that had already settled
C1_Witness ==
  \E p \in Promises : attempts[p] >= 2 /\ _state[p] # PENDING

\* C2: for then calls made while the source was PENDING: nothing is invoked
\* before the source settles; after it, the continuation for the source's
\* state is either still held by the host or has been invoked, once in all,
\* never inside the settlement call, and in the order of the then calls.
C2_RegisteredWhilePending ==
  \A d \in ThenCalls :
    origin[d].was = PENDING =>
      LET F  == Source(d)
          st == _state[F]
      IN /\ st = PENDING => Invoked(d, FULFILLED) + Invoked(d, REJECTED) = 0
         /\ st # PENDING =>
              /\ isFunction(Cont(d, st)) => Invoked(d, st) + Queued(d, st) = 1
              /\ Invoked(d, Other(st)) = 0
              /\ \A i \in Events(d, st) : ~Inside(calls[i].stack, "_changeState", F)
              /\ \A e \in ThenCalls :
                   ( /\ Source(e) = F /\ origin[e].was = PENDING /\ d < e
                     /\ isFunction(Cont(d, st)) /\ Invoked(e, st) = 1 )
                   => /\ Invoked(d, st) = 1
                      /\ \A i \in Events(d, st), j \in Events(e, st) : i < j

\* two then calls on a pending promise, both continuations invoked
C2_Witness ==
  \E d, e \in ThenCalls :
    /\ d < e /\ Source(d) = Source(e)
    /\ origin[d].was = PENDING /\ origin[e].was = PENDING
    /\ Invoked(d, _state[Source(d)]) = 1 /\ Invoked(e, _state[Source(d)]) = 1

\* C3: for then calls made on a settled promise: the continuation for its
\* state is either still held by the host or has been invoked, once in all,
\* and never inside the then call; the other continuation is never invoked.
C3_RegisteredWhenSettled ==
  \A d \in ThenCalls :
    origin[d].was # PENDING =>
      LET st == origin[d].was
      IN /\ _state[Source(d)] = st
         /\ isFunction(Cont(d, st)) => Invoked(d, st) + Queued(d, st) = 1
         /\ Invoked(d, Other(st)) = 0
         /\ \A i \in Events(d, st) : ~Inside(calls[i].stack, "then", d)

\* a continuation registered on a settled promise has been invoked
C3_Witness ==
  \E d \in ThenCalls :
    /\ origin[d].was # PENDING
    /\ origin[d].onFulfilled.fn = "script"
    /\ Invoked(d, origin[d].was) = 1

\* C4: when the fulfilment continuation of a then call throws E, the promise
\* that call returned is REJECTED with E and its rejection continuation is not
\* invoked.
C4_ThrowRejects ==
  \A i \in DOMAIN calls :
    (calls[i].state = FULFILLED /\ calls[i].did.k = "throw") =>
      LET d == calls[i].ret
      IN /\ _state[d] = REJECTED
         /\ _value[d] = Thrown(d)
         /\ Invoked(d, REJECTED) = 0

\* a fulfilment continuation threw although a rejection continuation was given
C4_Witness ==
  \E i \in DOMAIN calls :
    /\ calls[i].state = FULFILLED /\ calls[i].did.k = "throw"
    /\ isFunction(origin[calls[i].ret].onRejected)
    /\ _state[calls[i].ret] = REJECTED

\* C5: when a continuation returns the promise inner, the promise the then
\* call returned settles only as inner did, with inner's payload and never
\* with inner itself, and it has settled once inner has and the host holds no
\* callback.
C5_Adoption ==
  \A i \in DOMAIN calls :
    calls[i].did.k = "promise" =>
      LET d     == calls[i].ret
          inner == calls[i].did.id
      IN /\ _state[d] # PENDING => /\ _state[d] = _state[inner]
                                   /\ _value[d] = _value[inner]
                                   /\ _value[d] # Ref(inner)
         /\ (_state[inner] # PENDING /\ nextTick = <<>>) => _state[d] # PENDING

\* a returned promise that was still pending has been adopted
C5_Witness ==
  \E i \in DOMAIN calls :
    /\ calls[i].did.k = "promise"
    /\ \E j \in DOMAIN settled : /\ settled[j] = calls[i].did.id
                                 /\ \E k \in 1 .. (j - 1) : settled[k] = calls[i].this
    /\ _state[calls[i].ret] = FULFILLED
    /\ _value[calls[i].ret] = _value[calls[i].did.id]

\* C6: a then call without rejection continuation on a REJECTED promise never
\* invokes its fulfilment continuation and returns a promise that is REJECTED
\* with the same reason as soon as its callback has run; two such calls in a
\* row hand the reason to the last promise.
Propagates(d) == d \in ThenCalls /\ ~isFunction(origin[d].onRejected)

C6_RejectionPropagates ==
  \A d \in ThenCalls :
    /\ (Propagates(d) /\ _state[Source(d)] = REJECTED) =>
         /\ Invoked(d, FULFILLED) = 0
         /\ \/ Queued(d, REJECTED) = 1 /\ _state[d] = PENDING
            \/ /\ Queued(d, REJECTED) = 0
               /\ _state[d] = REJECTED
               /\ _value[d] = _value[Source(d)]
    /\ ( /\ Propagates(d) /\ Propagates(Source(d))
         /\ _state[Source(Source(d))] = REJECTED
         /\ nextTick = <<>> )
       => /\ _state[d] = REJECTED
          /\ _value[d] = _value[Source(Source(d))]

\* a reason has gone through a chain of two then calls
C6_Witness ==
  \E d \in ThenCalls :
    /\ Propagates(d) /\ Propagates(Source(d))
    /\ origin[d].onFulfilled.fn = "script"
    /\ _state[Source(Source(d))] = REJECTED
    /\ _state[d] = REJECTED
    /\ _value[d] = _value[Source(Source(d))]

\* ------------------------------------------------- properties: combinators
AllCalls == {r \in Promises : origin[r].fn = "all"}
Calls(f) == {i \in DOMAIN api : api[i].fn = f}

\* an input of a combinator is a promise or a plain value, which counts as
\* fulfilled with itself
IsFulfilled(x) == x.k = "promise" => _state[x.id] = FULFILLED
IsRejected(x)  == x.k = "promise" /\ _state[x.id] = REJECTED
IsSettled(x)   == x.k = "promise" => _state[x.id] # PENDING
Outcome(x)     == IF x.k = "promise" THEN _value[x.id] ELSE x
\* when promise q left PENDING, as a position in the history
When(q)        == CHOOSE j \in DOMAIN settled : settled[j] = q

\* C7: the promise all returns is FULFILLED only when every input is, and
\* then with the inputs' payloads in input order; it is FULFILLED once every
\* input is and the host holds no callback.
C7_AllInOrder ==
  \A r \in AllCalls :
    LET proms == origin[r].proms
    IN /\ _state[r] = FULFILLED =>
            /\ \A i \in DOMAIN proms : IsFulfilled(proms[i])
            /\ _value[r] = Arr([i \in DOMAIN proms |-> Outcome(proms[i])])
       /\ ((\A i \in DOMAIN proms : IsFulfilled(proms[i])) /\ nextTick = <<>>)
            => _state[r] = FULFILLED

\* all([P1, P2]) is fulfilled although P2 was fulfilled before P1
C7_Witness ==
  \E r \in AllCalls :
    LET proms == origin[r].proms
    IN /\ Len(proms) = 2 /\ proms[1].k = "promise" /\ proms[2].k = "promise"
       /\ proms[1] # proms[2]
       /\ _state[r] = FULFILLED
       /\ When(proms[2].id) < When(proms[1].id)
       /\ _value[r] = Arr(<<_value[proms[1].id], _value[proms[2].id]>>)

\* C8 as stated: the promise all returns is REJECTED with the reason of the
\* input that was the first to become REJECTED, as soon as the callback
\* for it has run.
Rejected(r)      == {i \in DOMAIN origin[r].proms : IsRejected(origin[r].proms[i])}
FirstToReject(r) ==
  CHOOSE i \in Rejected(r) :
    \A j \in Rejected(r) : When(origin[r].proms[i].id) <= When(origin[r].proms[j].id)

C8_FirstToReject ==
  \A r \in AllCalls :
    /\ _state[r] = REJECTED =>
         /\ Rejected(r) # {}
         /\ _value[r] = Outcome(origin[r].proms[FirstToReject(r)])
    /\ (Rejected(r) # {} /\ nextTick = <<>>) => _state[r] = REJECTED

\* C8 as amended: the reason is that of the input whose rejection is
\* dispatched first. Inputs already REJECTED when all is called come first, in
\* input order; inputs rejecting later follow in the order they reject.
WasAtCall(r, i) ==
  LET d == CHOOSE d \in ThenCalls : /\ origin[d].onFulfilled.fn = "all_onFulfilled"
                                    /\ origin[d].onFulfilled.this = r
                                    /\ origin[d].onFulfilled.i = i - 1
  IN origin[d].was
Rank(r, i) ==
  IF WasAtCall(r, i) = REJECTED THEN i
  ELSE Len(origin[r].proms) + When(origin[r].proms[i].id)
FirstDispatched(r) ==
  CHOOSE i \in Rejected(r) : \A j \in Rejected(r) : Rank(r, i) <= Rank(r, j)

C8_FirstDispatched ==
  \A r \in AllCalls :
    /\ _state[r] = REJECTED =>
         /\ Rejected(r) # {}
         /\ _value[r] = Outcome(origin[r].proms[FirstDispatched(r)])
    /\ (Rejected(r) # {} /\ nextTick = <<>>) => _state[r] = REJECTED

\* all([P1, P2]): P2 rejected after the call, P1 rejected later still, and the
\* result keeps P2's reason
C8_Witness ==
  \E r \in AllCalls :
    LET proms == origin[r].proms
    IN /\ Len(proms) = 2 /\ proms[1].k = "promise" /\ proms[2].k = "promise"
       /\ WasAtCall(r, 1) = PENDING /\ WasAtCall(r, 2) = PENDING
       /\ IsRejected(proms[1]) /\ IsRejected(proms[2])
       /\ When(proms[2].id) < When(proms[1].id)
       /\ _state[r] = REJECTED
       /\ _value[r] = _value[proms[2].id]
       /\ _value[r] # _value[proms[1].id]

\* C9: race returns a promise that takes the state and payload of the input
\* that settles first, and keeps them.
Settled(proms)     == {i \in DOMAIN proms : IsSettled(proms[i])}
Earlier(proms, i, j) ==
  \/ proms[i].k # "promise" /\ (proms[j].k = "promise" \/ i <= j)
  \/ proms[i].k = "promise" /\ proms[j].k = "promise"
       /\ When(proms[i].id) <= When(proms[j].id)
FirstToSettle(proms) ==
  CHOOSE i \in Settled(proms) : \A j \in Settled(proms) : Earlier(proms, i, j)

C9_RaceAdoptsFirst ==
  \A c \in Calls("race") :
    /\ ~api[c].threw
    /\ api[c].ret.k = "promise"
    /\ LET r     == api[c].ret.id
           proms == api[c].proms
       IN /\ _state[r] # PENDING =>
               /\ Settled(proms) # {}
               /\ _state[r] = (IF IsRejected(proms[FirstToSettle(proms)])
                                 THEN REJECTED ELSE FULFILLED)
               /\ _value[r] = Outcome(proms[FirstToSettle(proms)])
          /\ (Settled(proms) # {} /\ nextTick = <<>>) => _state[r] # PENDING

\* C10: allSettled fulfils with one descriptor per input, in input order:
\* {status: fulfilled, value} for a fulfilled input, {status: rejected,
\* reason} for a rejected one.
Descriptor(x) ==
  IF IsRejected(x) THEN ReasonObj(REJECTED, Outcome(x)) ELSE ValueObj(FULFILLED, Outcome(x))

C10_Descriptors ==
  \A c \in Calls("allSettled") :
    LET r     == api[c].ret.id
        proms == api[c].proms
    IN _state[r] = FULFILLED =>
         _value[r] = Arr([i \in DOMAIN proms |-> Descriptor(proms[i])])

\* C11: the promise allSettled returns is never REJECTED, is PENDING while an
\* input is PENDING, and is FULFILLED once every input has settled and the
\* host holds no callback.
C11_AllSettledWaits ==
  \A c \in Calls("allSettled") :
    LET r     == api[c].ret.id
        proms == api[c].proms
    IN /\ _state[r] # REJECTED
       /\ (\E i \in DOMAIN proms : ~IsSettled(proms[i])) => _state[r] = PENDING
       /\ ((\A i \in DOMAIN proms : IsSettled(proms[i])) /\ nextTick = <<>>)
            => _state[r] = FULFILLED

\* allSettled([P1, P2]) is fulfilled after P1 was rejected and P2 fulfilled
C11_Witness ==
  \E c \in Calls("allSettled") :
    LET proms == api[c].proms
    IN /\ Len(proms) = 2 /\ proms[1].k = "promise" /\ proms[2].k = "promise"
       /\ _state[proms[1].id] = REJECTED /\ _state[proms[2].id] = FULFILLED
       /\ _state[api[c].ret.id] = FULFILLED

\* C12: a call all([]) leaves its result FULFILLED with the empty array and
\* hands no callback to the host.
C12_AllOfNothing ==
  [][\A c \in DOMAIN api' :
       (c \notin DOMAIN api /\ api'[c].fn = "all" /\ api'[c].proms = <<>>) =>
         /\ ~api'[c].threw
         /\ _state'[api'[c].ret.id] = FULFILLED
         /\ _value'[api'[c].ret.id] = Arr(<<>>)
         /\ handed' = handed
         /\ nextTick' = nextTick]_vars

\* all([]) has been called and its result is fulfilled with the empty array
C12_Witness ==
  \E c \in Calls("all") :
    /\ api[c].proms = <<>>
    /\ _state[api[c].ret.id] = FULFILLED
    /\ _value[api[c].ret.id] = Arr(<<>>)
    /\ ran = 0

\* ------------------------------------------------ properties: catch, finally
\* the invocations of function value f, as positions in the history
InvocationsOf(f) == {i \in DOMAIN calls : calls[i].executor = f}

\* C13: for a call F.catch(g) on a promise F that is FULFILLED with v, g is
\* never invoked, and the promise the call returned is never REJECTED and is
\* FULFILLED with v once the host holds no callback.
C13_CatchPassesValue ==
  \A c \in Calls("catch") :
    LET d == api[c].ret.id
        F == Source(d)
    IN _state[F] = FULFILLED =>
         /\ InvocationsOf(origin[d].onRejected) = {}
         /\ _state[d] # PENDING => _state[d] = FULFILLED /\ _value[d] = _value[F]
         /\ nextTick = <<>> => _state[d] = FULFILLED

\* catch(g) with a function g on a promise that was fulfilled after the call,
\* and the value has arrived
C13_Witness ==
  \E c \in Calls("catch") :
    LET d == api[c].ret.id
    IN /\ isFunction(origin[d].onRejected)
       /\ origin[d].was = PENDING
       /\ _state[Source(d)] = FULFILLED
       /\ _state[d] = FULFILLED
       /\ _value[d] = _value[Source(d)]

\* the callback passed to the finally call that made d, and what its
\* invocations did
Callback(d)  == origin[d].onFulfilled.onSettled
Normally(d)  == {i \in InvocationsOf(Callback(d)) : calls[i].did.k # "throw"}

\* C14 as stated: for a call F.finally(c) with a function c, c is invoked at
\* most once, and exactly once when F has settled and the host holds no
\* callback; once c has returned normally, the promise the call returned
\* is REJECTED with F's reason when F is REJECTED and FULFILLED with F's
\* value when F is FULFILLED.
C14_FinallyKeepsOutcome ==
  \A c \in Calls("finally") :
    LET d == api[c].ret.id
        F == Source(d)
    IN isFunction(Callback(d)) =>
         /\ Cardinality(InvocationsOf(Callback(d))) <= 1
         /\ (_state[F] # PENDING /\ nextTick = <<>>) =>
               Cardinality(InvocationsOf(Callback(d))) = 1
         /\ Normally(d) # {} => /\ _state[d] = _state[F]
                                /\ _value[d] = _value[F]

\* C14 as amended: the same, except that when F is FULFILLED with a promise
\* inner as its value the promise the call returned settles as inner does,
\* with inner's payload, and is PENDING while inner is.
C14_FinallyKeepsPlainOutcome ==
  \A c \in Calls("finally") :
    LET d == api[c].ret.id
        F == Source(d)
    IN isFunction(Callback(d)) =>
         /\ Cardinality(InvocationsOf(Callback(d))) <= 1
         /\ (_state[F] # PENDING /\ nextTick = <<>>) =>
               Cardinality(InvocationsOf(Callback(d))) = 1
         /\ Normally(d) # {} =>
               IF _state[F] = FULFILLED /\ isPromise(_value[F])
                 THEN LET inner == _value[F].id
                      IN /\ _state[d] # PENDING => /\ _state[d] = _state[inner]
                                                   /\ _value[d] = _value[inner]
                         /\ _state[inner] = PENDING => _state[d] = PENDING
                         /\ nextTick = <<>> => _state[d] = _state[inner]
                 ELSE /\ _state[d] = _state[F]
                      /\ _value[d] = _value[F]

\* finally(c) on a promise that was rejected after the call: c has been
\* invoked once, returned normally, and the reason has arrived
C14_Witness ==
  \E c \in Calls("finally") :
    LET d == api[c].ret.id
    IN /\ isFunction(Callback(d))
       /\ origin[d].was = PENDING
       /\ Cardinality(Normally(d)) = 1
       /\ _state[Source(d)] = REJECTED
       /\ _state[d] = REJECTED
       /\ _value[d] = _value[Source(d)]

\* ---------------------------------------------------- properties: executor
StateOf(m) == IF m = "_resolve" THEN FULFILLED ELSE REJECTED

\* C15: a constructor call whose executor throws E returns the promise; the
\* promise is REJECTED with E when the executor called no capability before,
\* and keeps the state and payload of the capability call it made before.
C15_ExecutorThrows ==
  \A c \in Calls("new") :
    /\ ~api[c].threw
    /\ api[c].ret.k = "promise"
    /\ LET p  == api[c].ret.id
           ex == origin[p].executor
       IN ex[Len(ex)].op = "throw" =>
            /\ Len(ex) = 1 => _state[p] = REJECTED /\ _value[p] = ex[1].v
            /\ Len(ex) = 2 => _state[p] = StateOf(ex[1].op) /\ _value[p] = ex[1].v

\* one executor threw at once, another threw after it had called resolve
C15_Witness ==
  \E p, q \in ScriptPromises :
    /\ origin[p].executor = <<Step("throw", Thrown(p))>>
    /\ _state[p] = REJECTED /\ _value[p] = Thrown(p)
    /\ origin[q].executor = <<Step("_resolve", Payload(q, 0)), Step("throw", Thrown(q))>>
    /\ _state[q] = FULFILLED /\ _value[q] = Payload(q, 0)

\* ---------------------------------------------------- properties: dispatch
\* the host runs a callback whose handler watches the state the promise is
\* not in
RunsOther ==
  /\ nextTick # <<>>
  /\ ran' = ran + 1
  /\ Head(nextTick).handler.state # _state[Head(nextTick).this]

OneOfTwo ==
  \A d \in ThenCalls :
    /\ Invoked(d, FULFILLED) + Invoked(d, REJECTED) <= 1
    /\ \A st \in {FULFILLED, REJECTED} :
         \A i \in Events(d, st) : /\ _state[Source(d)] = st
                                   /\ calls[i].executor = Cont(d, st)

\* C16: of the two continuations of a then call at most one is invoked, and
\* at most once: the first only if the source is FULFILLED, the second only if
\* it is REJECTED; running the callback of the registration for the other
\* state changes no promise, invokes nothing and hands nothing to the host.
C16_OneOfTwo ==
  [][ /\ OneOfTwo'
      /\ RunsOther => /\ nextTick' = Tail(nextTick)
                      /\ UNCHANGED <<_state, _value, _handlers, calls, settled,
                                     origin, handed, timers>> ]_vars

\* then(f, g) with two functions on a promise that is fulfilled: both
\* callbacks have run, f has been invoked, g has not
C16_Witness ==
  \E d \in ThenCalls :
    /\ origin[d].onFulfilled.fn = "script" /\ origin[d].onRejected.fn = "script"
    /\ _state[Source(d)] = FULFILLED
    /\ Invoked(d, FULFILLED) = 1 /\ Invoked(d, REJECTED) = 0
    /\ Queued(d, FULFILLED) = 0 /\ Queued(d, REJECTED) = 0
    /\ _state[d] # PENDING

\* C17: continuations are invoked by the host only, never while a
\* continuation, an executor, a then call or a settlement is running, and in
\* the order in which their callbacks were handed to runMicroTask; so of two
\* then calls on different settled promises the continuation of the earlier
\* call is invoked first.
C17_Serialized ==
  /\ \A i \in DOMAIN calls : calls[i].stack = <<>> /\ calls[i].seq >= 1
  /\ \A i, j \in DOMAIN calls : i < j => calls[i].seq < calls[j].seq
  /\ \A d, e \in ThenCalls :
       ( /\ d < e /\ Source(d) # Source(e)
         /\ origin[d].was # PENDING /\ origin[e].was # PENDING
         /\ isFunction(Cont(d, origin[d].was))
         /\ Invoked(e, origin[e].was) = 1 )
       => /\ Invoked(d, origin[d].was) = 1
          /\ \A i \in Events(d, origin[d].was), j \in Events(e, origin[e].was) : i < j

\* A.then(a) then B.then(b) on two settled promises A and B: a and b have
\* been invoked, a first
C17_Witness ==
  \E d, e \in ThenCalls :
    /\ d < e /\ Source(d) # Source(e)
    /\ origin[d].was # PENDING /\ origin[e].was # PENDING
    /\ origin[d].onFulfilled.fn = "script" /\ origin[e].onRejected.fn = "script"
    /\ \E i \in Events(d, origin[d].was), j \in Events(e, origin[e].was) : i < j

\* -------------------------------------------------------- properties: host
\* C18: on every host, each callback handed to runMicroTask is run once: at
\* any time it has been run or the host still holds it for a later run, and
\* none is run inside the call that hands it over.
C18_EveryCallbackRuns ==
  /\ handed = ran + Len(nextTick) + Len(timers)
  /\ \A i \in DOMAIN calls : calls[i].stack = <<>> \/ calls[i].state = "settled"

\* ---------------------------------------------------- properties: liveness
\* the promises d is adopting: those a continuation invoked for d returned
Adopting(d) ==
  {origin[e].this : e \in {e \in ThenCalls : origin[e].onFulfilled = Bound("_resolve", d)}}
Chained(d) == IF d \in Promises THEN origin[d].fn = "then" ELSE FALSE
SourceSettled(d) == IF Chained(d) THEN _state[Source(d)] # PENDING ELSE FALSE
LeftPending(d)   == IF Chained(d) THEN _state[d] # PENDING ELSE FALSE
Waiting(d) == IF Chained(d) THEN \E q \in Adopting(d) : _state[q] = PENDING ELSE FALSE

\* C19: a promise returned by then (catch and finally call then) is PENDING
\* while its source is; and once its source has settled it leaves PENDING
\* at some time, unless the continuation invoked for it returned a promise
\* that is still PENDING.
C19_ChainSettles ==
  /\ [](\A d \in ThenCalls : _state[Source(d)] = PENDING => _state[d] = PENDING)
  /\ \A d \in 1 .. MaxPromises :
       SourceSettled(d) ~> (LeftPending(d) \/ Waiting(d))

\* a promise made by catch or finally before its source settled has settled
\* after adopting a promise that the continuation returned
C19_Witness ==
  \E c \in Calls("catch") \cup Calls("finally") :
    LET d == api[c].ret.id
    IN /\ origin[d].was = PENDING
       /\ Adopting(d) # {}
       /\ \A q \in Adopting(d) :
            \E j, k \in DOMAIN settled :
              j < k /\ settled[j] = Source(d) /\ settled[k] = q
       /\ _state[d] # PENDING

\* ------------------------------------------------------ properties: values
\* C20: a promise whose first capability call was resolve(v) is FULFILLED with
\* v itself from the return of that call on, also when v is a promise, in
\* whatever state; and a promise that adopted the promise inner a
\* continuation returned has inner's state and inner's payload as it is,
\* also when that payload is a promise.
C20_ResolveRecords ==
  /\ \A p \in ScriptPromises :
       (given[p] # <<>> /\ given[p][1].op = "_resolve") =>
         /\ _state[p] = FULFILLED
         /\ _value[p] = given[p][1].v
  /\ \A i \in DOMAIN calls :
       (calls[i].did.k = "promise" /\ calls[i].state # "settled"
          /\ _state[calls[i].ret] # PENDING) =>
         /\ _state[calls[i].ret] = _state[calls[i].did.id]
         /\ _value[calls[i].ret] = _value[calls[i].did.id]

\* inner = new MyPromise(resolve => resolve(q)) is fulfilled with q, q is
\* rejected, and a promise that adopted inner is fulfilled with q
C20_Witness ==
  \E i \in DOMAIN calls :
    /\ calls[i].did.k = "promise" /\ calls[i].state # "settled"
    /\ LET inner == calls[i].did.id
           d     == calls[i].ret
       IN /\ origin[inner].executor # <<>>
          /\ given[inner] # <<>>
          /\ given[inner][1].op = "_resolve"
          /\ isPromise(given[inner][1].v)
          /\ _state[given[inner][1].v.id] = REJECTED
          /\ _state[inner] = FULFILLED
          /\ _value[inner] = given[inner][1].v
          /\ _state[d] = FULFILLED
          /\ _value[d] = given[inner][1].v
====
